---------------------------- MODULE Spec2Model ----------------------------
(***************************************************************************)
(* The demo runner of roqoqo/standalone: fn main() of src/main.rs, a       *)
(* straight-line list of seven calls.  The bodies of the seven routines    *)
(* are in modules that main.rs only declares (intro_to_roqoqo,             *)
(* measurement_example, teleportation_example, simple_vha_with_roqoqo), so *)
(* a routine is an open environment here: once invoked it may work for a   *)
(* while, return any value, panic, or never return.                        *)
(*                                                                         *)
(* A state describes every process of the set `runs` side by side.  Spec   *)
(* observes one process; SpecPair observes two processes started with      *)
(* independent command lines and environments whose routines behave alike  *)
(* (they work, return and panic at the same moments, possibly returning    *)
(* different values), which is what a statement about "any two runs"       *)
(* needs.                                                                  *)
(***************************************************************************)
EXTENDS Naturals, Sequences, FiniteSets

VARIABLES
    runs,      \* the processes under observation
    argv,      \* argv[r]: the command line process r was started with
    env,       \* env[r]: the environment process r was started with
    pc,        \* pc[r]: the statement of main that r is at, 1..7; 8 is the closing brace
    status,    \* status[r]: "main" | "callee" | "exited" | "panicked"
    calls,     \* calls[r]: the invocations made so far, in order: [name, args]
    active,    \* active[r]: the routines invoked and not yet returned
    returned,  \* returned[r]: the routines that have returned, in order
    ret,       \* ret[r]: the value the last routine handed back (never read by main)
    work,      \* the steps the routine in progress has taken
    failedAt   \* failedAt[r]: the statement whose routine panicked, 0 while none has

vars == <<runs, argv, env, pc, status, calls, active, returned, ret, work, failedAt>>

\* The longest stretch of internal steps of one routine that the model follows.
MaxWork == 2

\* Command lines and environments a process may be started with.
ArgvChoices == {<<>>, <<"--only", "teleportation">>, <<"--reverse">>}
EnvChoices == {"none", "SKIP_VHA=1"}

\* What a routine may hand back; main.rs does not show the return types.
RetVals == {"unit", "Ok", "Err"}

-----------------------------------------------------------------------------
(* main.rs lines 16-22: the list of calls, by statement.                   *)

\* Variant: the measurement and teleportation demos written the other way round.
OrderSwapped ==
    << "entangling_circuit_snippet", "measuring_qubits", "measuring_observables",
       "serialization_quantum_program", "teleportation_main", "measurement_main",
       "run_simple_vha" >>

Order ==
    << "entangling_circuit_snippet", "measuring_qubits", "measuring_observables",
       "serialization_quantum_program", "measurement_main", "teleportation_main",
       "run_simple_vha" >>

\* The closing brace of main.
End == Len(Order) + 1

\* Variant: the previous routine's Err result makes main skip a routine.
CalleeByRet(r) ==
    IF ret[r] = "Err" /\ pc[r] < Len(Order) THEN Order[pc[r] + 1] ELSE Order[pc[r]]

\* Variant: a --reverse flag read from the command line reverses the list.
CalleeByArgv(r) ==
    IF argv[r] = <<"--reverse">> THEN Order[End - pc[r]] ELSE Order[pc[r]]

\* The routine the statement at pc[r] names.
Callee(r) == Order[pc[r]]

\* Every call is written f(): no arguments.
CallArgs(r) == <<>>

\* A call statement runs when control is in main and a statement is left.
CanCall(r) == status[r] = "main" /\ pc[r] <= Len(Order)

\* Variant: the routine is started and main goes on without waiting for it.
AfterCallSpawn(r) == [pc |-> pc[r] + 1, status |-> "main"]

\* A call is synchronous: control moves into the routine, main waits at pc.
AfterCall(r) == [pc |-> pc[r], status |-> "callee"]

\* Variant: after a return main passes over the next statement.
AfterReturnSkip(r) ==
    [pc |-> IF pc[r] + 2 <= End THEN pc[r] + 2 ELSE End, status |-> "main"]

\* f(); drops the value and goes on to the next statement.
AfterReturn(r) == [pc |-> pc[r] + 1, status |-> "main"]

\* Variant: main catches the panic and carries on with the next statement.
OnPanicResume(r) == [pc |-> pc[r] + 1, status |-> "main"]

\* main catches nothing: a panic in a routine unwinds through main and ends
\* the process with a failure status.
OnPanic(r) == [pc |-> pc[r], status |-> "panicked"]

\* Variants: main may return before its last statement; at any statement.
CanExitBeforeLast(r) == status[r] = "main" /\ pc[r] >= Len(Order)

CanExitAnywhere(r) == status[r] = "main"

\* main returns, and the process exits normally, at its closing brace.
CanExit(r) == status[r] = "main" /\ pc[r] = End

-----------------------------------------------------------------------------

InitRun(R) ==
    /\ runs = R
    /\ argv \in [R -> ArgvChoices]
    /\ env \in [R -> EnvChoices]
    /\ pc = [r \in R |-> 1]
    /\ status = [r \in R |-> "main"]
    /\ calls = [r \in R |-> <<>>]
    /\ active = [r \in R |-> {}]
    /\ returned = [r \in R |-> <<>>]
    /\ ret = [r \in R |-> "none"]
    /\ work = 0
    /\ failedAt = [r \in R |-> 0]

Init == InitRun({1})

InitPair == InitRun({1, 2})

\* main executes the call statement it is at.
Call ==
    /\ \A r \in runs : CanCall(r)
    /\ calls' = [r \in runs |->
                   Append(calls[r], [name |-> Callee(r), args |-> CallArgs(r)])]
    /\ active' = [r \in runs |-> active[r] \cup {Callee(r)}]
    /\ pc' = [r \in runs |-> AfterCall(r).pc]
    /\ status' = [r \in runs |-> AfterCall(r).status]
    /\ work' = 0
    /\ UNCHANGED <<runs, argv, env, returned, ret, failedAt>>

\* The routine in progress takes a step of its own.
RoutineStep ==
    /\ \A r \in runs : status[r] = "callee"
    /\ work < MaxWork
    /\ work' = work + 1
    /\ UNCHANGED <<runs, argv, env, pc, status, calls, active, returned, ret, failedAt>>

\* The routine in progress returns; main drops the value and moves on.
Return ==
    /\ \A r \in runs : status[r] = "callee"
    /\ \E v \in [runs -> RetVals] :
          ret' = v
    /\ returned' = [r \in runs |-> Append(returned[r], calls[r][Len(calls[r])].name)]
    /\ active' = [r \in runs |-> active[r] \ {calls[r][Len(calls[r])].name}]
    /\ pc' = [r \in runs |-> AfterReturn(r).pc]
    /\ status' = [r \in runs |-> AfterReturn(r).status]
    /\ work' = 0
    /\ UNCHANGED <<runs, argv, env, calls, failedAt>>

\* The routine in progress panics.
Panic ==
    /\ \A r \in runs : status[r] = "callee"
    /\ failedAt' = [r \in runs |-> pc[r]]
    /\ pc' = [r \in runs |-> OnPanic(r).pc]
    /\ status' = [r \in runs |-> OnPanic(r).status]
    /\ UNCHANGED <<runs, argv, env, calls, active, returned, ret, work>>

\* main returns from its closing brace.
Exit ==
    /\ \A r \in runs : CanExit(r)
    /\ status' = [r \in runs |-> "exited"]
    /\ UNCHANGED <<runs, argv, env, pc, calls, active, returned, ret, work, failedAt>>

\* The runner's own steps, and the routines'.
main == Call \/ Exit

routine == RoutineStep \/ Return \/ Panic

Next == main \/ routine

Spec == Init /\ [][Next]_vars

SpecPair == InitPair /\ [][Next]_vars

\* A running thread keeps running: main's own statements are taken when they
\* can be.  Nothing is promised about the routines.
FairSpec == Init /\ [][Next]_vars /\ WF_vars(Call) /\ WF_vars(Exit)

-----------------------------------------------------------------------------
(* Properties of the runner.                                                *)

\* The order in which the specification declares the seven demo routines.
Declared ==
    << "entangling_circuit_snippet", "measuring_qubits", "measuring_observables",
       "serialization_quantum_program", "measurement_main", "teleportation_main",
       "run_simple_vha" >>

Prefix(s, n) == SubSeq(s, 1, n)

CallNames(r) == [i \in 1..Len(calls[r]) |-> calls[r][i].name]

Names(s) == {s[i] : i \in 1..Len(s)}

\* A routine is in progress; control is back in main (the routine returned).
InRoutine == \A r \in runs : status[r] = "callee"

BackInMain == \A r \in runs : status[r] \in {"main", "exited"}

NormalExit == \A r \in runs : status[r] = "exited"

\* C1: in a run in which all routines return, the invocations made are
\* exactly the seven declared routines, each once, in the declared order.
C1_SevenOnceInOrder ==
    \A r \in runs :
        (status[r] = "exited" \/ Len(returned[r]) >= Len(Declared))
            => /\ CallNames(r) = Declared
               /\ returned[r] = Declared

C1_Witness == status[1] = "exited" /\ Len(calls[1]) = 7 /\ Len(returned[1]) = 7

\* C2: if every routine that is invoked eventually returns, main eventually
\* exits normally; and main has exited normally only when run_simple_vha,
\* and with it all seven routines, has returned.
C2_ExitsAfterAllReturn ==
    /\ (InRoutine ~> BackInMain) => <>NormalExit
    /\ [](\A r \in runs :
            status[r] = "exited"
                => /\ returned[r] = Declared
                   /\ returned[r][Len(returned[r])] = "run_simple_vha"
                   /\ active[r] = {})

C2_Witness == status[1] = "exited" /\ "run_simple_vha" \in Names(returned[1])

\* What a process whose k-th routine panicked (failedAt[r] = k) looks like.
C3_Panicked(r) ==
    failedAt[r] # 0
        => /\ status[r] = "panicked"
           /\ Len(calls[r]) = failedAt[r]
           /\ CallNames(r) = Prefix(Declared, failedAt[r])
           /\ returned[r] = Prefix(Declared, failedAt[r] - 1)

\* C3: when the k-th routine panics the process is terminated: the routines
\* invoked are the first k, each once (no retry, nothing after k), and from
\* then on no step is taken at all (no recovery).
C3_PanicTerminates ==
    /\ [](\A r \in runs : C3_Panicked(r))
    /\ [][(\E r \in runs : failedAt[r] # 0) => UNCHANGED vars]_vars
    /\ [][(failedAt' # failedAt) => (calls' = calls /\ returned' = returned)]_vars

C3_Witness ==
    failedAt[1] = 5 /\ status[1] = "panicked" /\ calls[1][5].name = "measurement_main"

\* C4: at most one routine is in progress, main does nothing while a routine
\* is in progress, and a routine is invoked only when every routine invoked
\* before it has returned.
C4_OneAtATime ==
    \A r \in runs :
        /\ Cardinality(active[r]) <= 1
        /\ active[r] # {} => status[r] \in {"callee", "panicked"}
        /\ status[r] = "callee" => active[r] = {calls[r][Len(calls[r])].name}
        /\ Len(calls[r]) <= Len(returned[r]) + 1
        /\ Names(returned[r]) \cap active[r] = {}

C4_Witness ==
    /\ status[1] = "callee"
    /\ active[1] = {"teleportation_main"}
    /\ work = MaxWork
    /\ Len(returned[1]) = 5

\* The runner's own step is the one the position dictates: the call of the
\* declared routine at pc, or the exit at the closing brace.
RunnerStepAsDeclared ==
    \A r \in runs :
        IF pc[r] <= Len(Declared)
        THEN /\ calls'[r] = Append(calls[r], [name |-> Declared[pc[r]], args |-> <<>>])
             /\ status'[r] = "callee"
             /\ pc'[r] = pc[r]
        ELSE /\ calls'[r] = calls[r]
             /\ status'[r] = "exited"
             /\ pc'[r] = pc[r]

RunnerDeterministic ==
    /\ ~(ENABLED Call /\ ENABLED Exit)
    /\ ~(ENABLED (main /\ ~RunnerStepAsDeclared))

Terminal == ~(ENABLED Next)

\* C5 as stated: every run ends in one and the same terminal state, the
\* normal exit, and the runner never has a choice of successor.
C5_OneTerminalState ==
    /\ Terminal => \A r \in runs : status[r] = "exited" /\ pc[r] = End
    /\ RunnerDeterministic

\* C5 as amended: a run ends either in the normal exit, at the closing brace
\* with all seven routines returned, or in the failure exit of a panic, at
\* the statement whose routine panicked; the runner never has a choice of
\* successor.
C5_TwoTerminalStates ==
    /\ Terminal =>
          \A r \in runs :
              \/ /\ status[r] = "exited"
                 /\ pc[r] = End
                 /\ failedAt[r] = 0
                 /\ Len(returned[r]) = Len(Declared)
              \/ /\ status[r] = "panicked"
                 /\ pc[r] = failedAt[r]
                 /\ pc[r] <= Len(Declared)
                 /\ active[r] = {Declared[pc[r]]}
    /\ (\E r \in runs : status[r] \in {"exited", "panicked"}) => Terminal
    /\ RunnerDeterministic

C5_Witness == Terminal /\ status[1] = "panicked" /\ pc[1] = 3

\* C6: every invocation passes no arguments and is of the routine declared
\* for the position reached, whatever the earlier routines returned; a
\* returned value changes nothing but the position, which moves on by one.
C6_NoDataThreaded ==
    /\ [][\A r \in runs :
            Len(calls'[r]) # Len(calls[r])
                => calls'[r] = Append(calls[r],
                                      [name |-> Declared[Len(returned[r]) + 1],
                                       args |-> <<>>])]_vars
    /\ [][\A r \in runs :
            Len(returned'[r]) # Len(returned[r])
                => /\ pc'[r] = pc[r] + 1
                   /\ status'[r] = "main"
                   /\ calls'[r] = calls[r]]_vars

C6_Witness ==
    /\ ret[1] = "Err"
    /\ Len(returned[1]) = 2
    /\ Len(calls[1]) = 3
    /\ calls[1][3] = [name |-> "measuring_observables", args |-> <<>>]

\* C7: two runs started with any command lines and environments, whose
\* routines return or fail at the same positions, make the same invocations.
C7_InputIndependent ==
    \A r1 \in runs : \A r2 \in runs :
        /\ calls[r1] = calls[r2]
        /\ returned[r1] = returned[r2]
        /\ status[r1] = status[r2]

C7_Witness ==
    /\ runs = {1, 2}
    /\ argv[1] = <<"--reverse">> /\ argv[2] = <<>>
    /\ env[1] # env[2]
    /\ ret[1] # ret[2]
    /\ Len(calls[1]) = 7
    /\ Len(calls[2]) = 7

\* C8: in every state the invocations made are a prefix of the declared
\* order, and all of them but possibly the last have returned.
C8_PrefixOfDeclared ==
    \A r \in runs :
        /\ Len(calls[r]) <= Len(Declared)
        /\ CallNames(r) = Prefix(Declared, Len(calls[r]))
        /\ Len(returned[r]) <= Len(calls[r])
        /\ Len(calls[r]) <= Len(returned[r]) + 1
        /\ returned[r] = Prefix(Declared, Len(returned[r]))
        /\ "measurement_main" \in Names(CallNames(r))
              => "serialization_quantum_program" \in Names(returned[r])
        /\ "run_simple_vha" \in Names(CallNames(r))
              => "teleportation_main" \in Names(returned[r])

C8_Witness ==
    /\ status[1] = "panicked"
    /\ Len(calls[1]) = 6
    /\ Len(returned[1]) = 5

=============================================================================
